---- MODULE Spec2Model ----
(***************************************************************************)
(* State-machine model of hub.core.chunk_engine.ChunkEngine (and of the    *)
(* Tensor facade that forwards to it).                                     *)
(*                                                                         *)
(* Sizes are counted in abstract units (one unit = one byte of a uint8     *)
(* array).  ChunkEngine.extend is modelled statement by statement (one     *)
(* action per statement of the per-sample loop), because several           *)
(* properties speak about the intermediate points of an extend.            *)
(*                                                                         *)
(* Faults (an extend abandoned midway, the encoder blob deleted by hand)    *)
(* are injected once, into a tensor built by appends; sample updates are   *)
(* followed on tensors that no fault has hit.  Updates whose samples do    *)
(* not fit the index (one Sample for a slice, a list of another length)    *)
(* are followed as the first update of a tensor.                           *)
(*                                                                         *)
(* Chunk, ChunkIdEncoder, TensorMeta, the codec and the LRU cache are not  *)
(* part of the three source files; they are modelled from the design       *)
(* document and marked so in MODEL_MAP.json.                               *)
(***************************************************************************)
EXTENDS Integers, Sequences, FiniteSets, TLC

\* ------------------------------------------------------------------ bounds
\* cap on TensorMeta.length (guards of the calls that grow the tensor)
MaxSamples == 3
\* longest batch handed to one extend call
MaxBatch == 2
\* tensor_meta.max_chunk_size of the tensor of the general specification
ModelMaxChunkSize == 4
\* max chunk size of the docstring example of ChunkEngine.__init__ (in MB)
ExampleMaxChunkSize == 32

\* ----------------------------------------------------------------- helpers
Min(a, b) == IF a <= b THEN a ELSE b
Max(a, b) == IF a >= b THEN a ELSE b

\* _min_chunk_ct_for_data_size with a fault: floor instead of ceil
_min_chunk_ct_for_data_size_Floor(chunk_max_data_bytes, size) ==
    size \div chunk_max_data_bytes

\* math.ceil(size / chunk_max_data_bytes) for size >= 0
_min_chunk_ct_for_data_size(chunk_max_data_bytes, size) ==
    (size + chunk_max_data_bytes - 1) \div chunk_max_data_bytes

RECURSIVE SumSeq(_)
SumSeq(s) == IF s = <<>> THEN 0 ELSE Head(s) + SumSeq(Tail(s))

\* ------------------------------------------------------------ user samples
\* A user sample is a 2-d uint8 array: its shape and its elements, row major.
Arr(shape) == [shape |-> shape, elems |-> [i \in 1..(shape[1] * shape[2]) |-> i]]

\* shapes of the samples of the general specification: 0, 1, 3 and 4 bytes
Shapes == {<<0, 5>>, <<1, 1>>, <<1, 3>>, <<2, 2>>}
Arrays == {Arr(s) : s \in Shapes}

\* docstring example: samples of 1, 1, 14, 15, 15 MB, later 15 and 1 MB
ExampleFirst == <<Arr(<<1, 1>>), Arr(<<1, 1>>), Arr(<<1, 14>>), Arr(<<1, 15>>), Arr(<<1, 15>>)>>
ExampleSecond == <<Arr(<<1, 15>>), Arr(<<1, 1>>)>>
ExampleAll == ExampleFirst \o ExampleSecond

\* serialize_input_samples for one uint8 sample: (buffer, shape); tobytes() of
\* a uint8 array is its elements in row-major order
SerializeSample(a) == [buf |-> a.elems, shape |-> a.shape]
serialize_input_samples(samples) == [i \in 1..Len(samples) |-> SerializeSample(samples[i])]

\* ------------------------------------------------------------------- Chunk
EmptyChunk == [data |-> <<>>, shapes |-> <<>>, pos |-> <<>>]
num_data_bytes(c) == Len(c.data)
\* the design treats nbytes as the chunk's data length
nbytes(c) == Len(c.data)
is_under_min_space(c, min) == num_data_bytes(c) < min
ChunkNumSamples(c) == Len(c.shapes)
has_space_for(c, n, max) == num_data_bytes(c) + n <= max
append_sample(c, buffer, shape) ==
    [data   |-> c.data \o buffer,
     shapes |-> Append(c.shapes, shape),
     pos    |-> Append(c.pos, <<Len(c.data), Len(c.data) + Len(buffer)>>)]
\* splice the new buffer over the old byte range and shift the later ranges
update_sample(c, local, buffer, shape) ==
    LET sb == c.pos[local + 1][1]
        eb == c.pos[local + 1][2]
        d  == Len(buffer) - (eb - sb)
    IN [data   |-> SubSeq(c.data, 1, sb) \o buffer \o SubSeq(c.data, eb + 1, Len(c.data)),
        shapes |-> [c.shapes EXCEPT ![local + 1] = shape],
        pos    |-> [i \in 1..Len(c.pos) |->
                      IF i < local + 1 THEN c.pos[i]
                      ELSE IF i = local + 1 THEN <<sb, eb + d>>
                      ELSE <<c.pos[i][1] + d, c.pos[i][2] + d>>]]

\* ---------------------------------------------------------- ChunkIdEncoder
\* rows (chunk id, last global sample index); latest = the id generated by
\* generate_chunk_id that has no row yet (0: none)
BlankEncoder == [rows |-> <<>>, latest |-> 0]
EncNumSamples(e) == IF e.rows = <<>> THEN 0 ELSE e.rows[Len(e.rows)].last + 1
EncNumChunks(e) == Len(e.rows)
generate_chunk_id(e, id) == [e EXCEPT !.latest = id]
register_samples(e, n) ==
    IF e.latest # 0
    THEN [rows   |-> Append(e.rows, [id |-> e.latest, last |-> EncNumSamples(e) - 1 + n]),
          latest |-> 0]
    ELSE [e EXCEPT !.rows[Len(e.rows)].last = @ + n]
\* index of the smallest row whose last index >= g
EncRow(e, g) == CHOOSE r \in 1..Len(e.rows) :
                   /\ e.rows[r].last >= g
                   /\ \A q \in 1..(r - 1) : e.rows[q].last < g
EncLookup(e, g) == e.rows[EncRow(e, g)].id
translate_index_relative_to_chunks(e, g) ==
    LET r == EncRow(e, g) IN IF r = 1 THEN g ELSE g - e.rows[r - 1].last - 1
get_name_for_last_chunk(e) == e.rows[Len(e.rows)].id

\* --------------------------------------------------------------- TensorMeta
BlankMeta(max) == [length |-> 0, min_shape |-> <<>>, max_shape |-> <<>>,
                   dtype |-> "None", max_chunk_size |-> max]
update_shape_interval(m, shape) ==
    IF m.min_shape = <<>>
    THEN [m EXCEPT !.min_shape = shape, !.max_shape = shape]
    ELSE [m EXCEPT !.min_shape = [i \in 1..Len(shape) |-> Min(@[i], shape[i])],
                   !.max_shape = [i \in 1..Len(shape) |-> Max(@[i], shape[i])]]

\* ------------------------------------------------------------------- state
VARIABLES
    readonly,   \* the cache is read-only
    meta,       \* the TensorMeta held by the cache
    encExists,  \* the ChunkIdEncoder blob is in the cache
    enc,        \* the ChunkIdEncoder (BlankEncoder when absent)
    chunks,     \* chunk id -> Chunk, for the chunks in the cache
    pc,         \* position of the running call ("idle": none)
    batch,      \* serialized samples of the running extend not yet placed
    cur,        \* the (buffer, shape) being placed
    result,     \* outcome of the call that has just returned (pc = "done")
    pre,        \* history: length / num_samples / arguments at the call's entry
    log,        \* history: what the current _append_bytes / _update_sample has done so far
    written,    \* history: (buffer, shape) of every sample registered, in order
    updated,    \* history: some update has rewritten a sample
    broken,     \* history: a fault has hit the tensor (an abandoned call, a deleted blob)
    dead        \* the process that ran the abandoned extend is gone

vars == <<readonly, meta, encExists, enc, chunks, pc, batch, cur, result, pre,
          log, written, updated, broken, dead>>

NoSample == [buf |-> <<>>, shape |-> <<>>]
NoResult == [op |-> "none", err |-> "none", warn |-> FALSE]
NoPre == [length |-> 0, num_samples |-> 0, num_chunks |-> 0, n |-> 0]

\* ------------------------------------------------- ChunkEngine properties
max_chunk_size == meta.max_chunk_size
min_chunk_size == max_chunk_size \div 2
chunk_id_encoder_exists == encExists
num_chunks == IF ~chunk_id_encoder_exists THEN 0 ELSE EncNumChunks(enc)
num_samples == IF ~chunk_id_encoder_exists THEN 0 ELSE EncNumSamples(enc)
last_chunk_key == get_name_for_last_chunk(enc)
\* Tensor.__len__ of a tensor with the trivial index
TensorLen == num_samples

\* total number of samples held by the chunks in the cache
RECURSIVE SumChunkSamples(_)
SumChunkSamples(ids) ==
    IF ids = {} THEN 0
    ELSE LET id == CHOOSE x \in ids : TRUE
         IN ChunkNumSamples(chunks[id]) + SumChunkSamples(ids \ {id})
ChunkSampleTotal == SumChunkSamples(DOMAIN chunks)

\* ids are random 64-bit numbers; the engine only compares them for equality,
\* so the model takes the smallest id not in use
ChunkIds == 1..(MaxSamples + Len(ExampleAll))
UsedIds == DOMAIN chunks \cup {enc.rows[i].id : i \in 1..Len(enc.rows)}
FreshChunkId == CHOOSE id \in ChunkIds \ UsedIds : \A o \in ChunkIds \ UsedIds : id <= o

Init ==
    /\ readonly = FALSE
    /\ meta = BlankMeta(ModelMaxChunkSize)
    /\ encExists = FALSE
    /\ enc = BlankEncoder
    /\ chunks = <<>>
    /\ pc = "idle"
    /\ batch = <<>>
    /\ cur = NoSample
    /\ result = NoResult
    /\ pre = NoPre
    /\ log = <<>>
    /\ written = <<>>
    /\ updated = FALSE
    /\ broken = FALSE
    /\ dead = FALSE

\* ------------------------------------------------------------------ extend
\* ExtendEntry with a fault: a missing encoder is reported from length 1 on
ExtendEntry_CorruptedFromOne(samples, cap) ==
    /\ pc = "idle"
    /\ ~dead
    /\ Len(samples) >= 1
    /\ meta.length + Len(samples) <= cap
    /\ IF readonly
       THEN /\ pc' = "done"
            /\ result' = [op |-> "extend", err |-> "ReadOnly", warn |-> FALSE]
            /\ UNCHANGED <<meta, encExists, enc, batch, pre>>
       ELSE IF ~chunk_id_encoder_exists /\ meta.length >= 1
       THEN /\ pc' = "done"
            /\ result' = [op |-> "extend", err |-> "Corrupted", warn |-> FALSE]
            /\ UNCHANGED <<meta, encExists, enc, batch, pre>>
       ELSE /\ encExists' = TRUE
            /\ enc' = IF chunk_id_encoder_exists THEN enc ELSE BlankEncoder
            /\ meta' = IF meta.dtype = "None" THEN [meta EXCEPT !.dtype = "uint8"] ELSE meta
            /\ IF \E i \in 1..Len(samples) : Len(SerializeSample(samples[i]).buf) > max_chunk_size
               THEN /\ pc' = "done"
                    /\ result' = [op |-> "extend", err |-> "SampleTooLarge", warn |-> FALSE]
                    /\ UNCHANGED <<batch, pre>>
               ELSE /\ pc' = "loop"
                    /\ batch' = serialize_input_samples(samples)
                    /\ pre' = [length |-> meta.length, num_samples |-> num_samples,
                               num_chunks |-> num_chunks, n |-> Len(samples)]
                    /\ result' = NoResult
    /\ UNCHANGED <<readonly, chunks, cur, log, written, updated, broken, dead>>

\* ExtendEntry with a fault: check_readonly called after the access to
\* self.chunk_id_encoder and set_dtype
ExtendEntry_LateReadonly(samples, cap) ==
    /\ pc = "idle"
    /\ ~dead
    /\ Len(samples) >= 1
    /\ meta.length + Len(samples) <= cap
    /\ IF ~chunk_id_encoder_exists /\ meta.length > 1
       THEN /\ pc' = "done"
            /\ result' = [op |-> "extend", err |-> "Corrupted", warn |-> FALSE]
            /\ UNCHANGED <<meta, encExists, enc, batch, pre>>
       ELSE /\ encExists' = TRUE
            /\ enc' = IF chunk_id_encoder_exists THEN enc ELSE BlankEncoder
            /\ meta' = IF meta.dtype = "None" THEN [meta EXCEPT !.dtype = "uint8"] ELSE meta
            /\ IF readonly
               THEN /\ pc' = "done"
                    /\ result' = [op |-> "extend", err |-> "ReadOnly", warn |-> FALSE]
                    /\ UNCHANGED <<batch, pre>>
               ELSE IF \E i \in 1..Len(samples) : Len(SerializeSample(samples[i]).buf) > max_chunk_size
               THEN /\ pc' = "done"
                    /\ result' = [op |-> "extend", err |-> "SampleTooLarge", warn |-> FALSE]
                    /\ UNCHANGED <<batch, pre>>
               ELSE /\ pc' = "loop"
                    /\ batch' = serialize_input_samples(samples)
                    /\ pre' = [length |-> meta.length, num_samples |-> num_samples,
                               num_chunks |-> num_chunks, n |-> Len(samples)]
                    /\ result' = NoResult
    /\ UNCHANGED <<readonly, chunks, cur, log, written, updated, broken, dead>>

\* Lines 317-324 of ChunkEngine.extend: check_readonly, the access to
\* self.chunk_id_encoder (which creates a blank encoder or raises
\* CorruptedMetaError), set_dtype, serialize_input_samples.
ExtendEntry(samples, cap) ==
    /\ pc = "idle"
    /\ ~dead
    /\ Len(samples) >= 1
    /\ meta.length + Len(samples) <= cap
    /\ IF readonly
       THEN /\ pc' = "done"
            /\ result' = [op |-> "extend", err |-> "ReadOnly", warn |-> FALSE]
            /\ UNCHANGED <<meta, encExists, enc, batch, pre>>
       ELSE IF ~chunk_id_encoder_exists /\ meta.length > 1
       THEN /\ pc' = "done"
            /\ result' = [op |-> "extend", err |-> "Corrupted", warn |-> FALSE]
            /\ UNCHANGED <<meta, encExists, enc, batch, pre>>
       ELSE /\ encExists' = TRUE
            /\ enc' = IF chunk_id_encoder_exists THEN enc ELSE BlankEncoder
            /\ meta' = IF meta.dtype = "None" THEN [meta EXCEPT !.dtype = "uint8"] ELSE meta
            /\ IF \E i \in 1..Len(samples) : Len(SerializeSample(samples[i]).buf) > max_chunk_size
               THEN /\ pc' = "done"
                    /\ result' = [op |-> "extend", err |-> "SampleTooLarge", warn |-> FALSE]
                    /\ UNCHANGED <<batch, pre>>
               ELSE /\ pc' = "loop"
                    /\ batch' = serialize_input_samples(samples)
                    /\ pre' = [length |-> meta.length, num_samples |-> num_samples,
                               num_chunks |-> num_chunks, n |-> Len(samples)]
                    /\ result' = NoResult
    /\ UNCHANGED <<readonly, chunks, cur, log, written, updated, broken, dead>>

\* the batches a caller may pass
RECURSIVE SeqsOf(_, _)
SeqsOf(S, n) == IF n = 0 THEN {<<>>}
                ELSE {Append(q, x) : q \in SeqsOf(S, n - 1), x \in S}
Batches == UNION {SeqsOf(Arrays, n) : n \in 1..MaxBatch}

\* ChunkEngine.extend / Tensor.extend
ExtendCall == \E samples \in Batches : ExtendEntry(samples, MaxSamples)

\* ChunkEngine.append / Tensor.append: self.extend([sample])
AppendCall == \E sample \in Arrays : ExtendEntry(<<sample>>, MaxSamples)

\* ExtendNextSample with a fault: update_shape_interval is not called
ExtendNextSample_NoShape ==
    /\ pc = "loop"
    /\ batch # <<>>
    /\ cur' = Head(batch)
    /\ batch' = Tail(batch)
    /\ meta' = [meta EXCEPT !.length = @ + 1]
    /\ log' = <<"meta_length">>
    /\ pc' = "place"
    /\ UNCHANGED <<readonly, encExists, enc, chunks, result, pre, written, updated, broken, dead>>

\* ExtendNextSample with a fault: tensor_meta.length += 2
ExtendNextSample_LengthTwice ==
    /\ pc = "loop"
    /\ batch # <<>>
    /\ cur' = Head(batch)
    /\ batch' = Tail(batch)
    /\ meta' = [update_shape_interval(meta, Head(batch).shape) EXCEPT !.length = @ + 2]
    /\ log' = <<"meta_length">>
    /\ pc' = "place"
    /\ UNCHANGED <<readonly, encExists, enc, chunks, result, pre, written, updated, broken, dead>>

\* ExtendNextSample with a fault: the length is not incremented before _append_bytes
ExtendNextSample_NoLength ==
    /\ pc = "loop"
    /\ batch # <<>>
    /\ cur' = Head(batch)
    /\ batch' = Tail(batch)
    /\ meta' = update_shape_interval(meta, Head(batch).shape)
    /\ log' = <<"meta_length">>
    /\ pc' = "place"
    /\ UNCHANGED <<readonly, encExists, enc, chunks, result, pre, written, updated, broken, dead>>

\* Lines 325-329: the loop takes the next (buffer, shape), widens the shape
\* interval and increments tensor_meta.length before _append_bytes.
ExtendNextSample ==
    /\ pc = "loop"
    /\ batch # <<>>
    /\ cur' = Head(batch)
    /\ batch' = Tail(batch)
    /\ meta' = [update_shape_interval(meta, Head(batch).shape) EXCEPT !.length = @ + 1]
    /\ log' = <<"meta_length">>
    /\ pc' = "place"
    /\ UNCHANGED <<readonly, encExists, enc, chunks, result, pre, written, updated, broken, dead>>

\* CanMergeIntoLast with a fault: is_under_min_space is not consulted
CanMergeIntoLast_IgnoresMin(last, b) ==
    _min_chunk_ct_for_data_size(max_chunk_size, b + num_data_bytes(last))
       = _min_chunk_ct_for_data_size(max_chunk_size, b)

\* Lines 271-283: the merge test of _try_appending_to_last_chunk, for a last
\* chunk of s data bytes and an incoming buffer of b bytes.
CanMergeIntoLast(last, b) ==
    /\ is_under_min_space(last, min_chunk_size)
    /\ _min_chunk_ct_for_data_size(max_chunk_size, b + num_data_bytes(last))
         = _min_chunk_ct_for_data_size(max_chunk_size, b)

\* ExtraBytes with a fault: the room is measured against min_chunk_size
ExtraBytes_UsesMin(s, b) == Min(b, min_chunk_size - s)

\* Line 277
ExtraBytes(s, b) == Min(b, max_chunk_size - s)

\* TryAppendingToLastChunk with a fault: the whole buffer goes to an under-min
\* last chunk without the chunk count comparison
TryAppendingToLastChunk_NoCount ==
    /\ pc = "place"
    /\ IF num_chunks = 0
       THEN /\ pc' = "new_chunk"
            /\ UNCHANGED <<chunks, log, result, batch, pre>>
       ELSE LET last == chunks[last_chunk_key]
            IN IF is_under_min_space(last, min_chunk_size)
               THEN IF has_space_for(last, Len(cur.buf), max_chunk_size)
                    THEN /\ chunks' = [chunks EXCEPT ![last_chunk_key] =
                                          append_sample(last, cur.buf, cur.shape)]
                         /\ log' = Append(log, "chunk_write")
                         /\ pc' = "register"
                         /\ UNCHANGED <<result, batch, pre>>
                    ELSE /\ pc' = "done"
                         /\ result' = [op |-> "extend", err |-> "FullChunk", warn |-> FALSE]
                         /\ batch' = <<>>
                         /\ pre' = NoPre
                         /\ log' = <<>>
                         /\ UNCHANGED chunks
               ELSE /\ pc' = "new_chunk"
                    /\ UNCHANGED <<chunks, log, result, batch, pre>>
    /\ UNCHANGED <<readonly, meta, encExists, enc, cur, written, updated>>
    /\ broken' = (broken \/ pc' = "done")
    /\ UNCHANGED dead

\* _try_appending_to_last_chunk (lines 265-289), called at line 219.
\* Chunk.append_sample raises when the bytes do not fit.
TryAppendingToLastChunk ==
    /\ pc = "place"
    /\ IF num_chunks = 0
       THEN /\ pc' = "new_chunk"
            /\ UNCHANGED <<chunks, log, result, batch, pre>>
       ELSE LET last == chunks[last_chunk_key]
                s    == num_data_bytes(last)
                b    == Len(cur.buf)
                piece == SubSeq(cur.buf, 1, ExtraBytes(s, b))
            IN IF CanMergeIntoLast(last, b)
               THEN IF has_space_for(last, Len(piece), max_chunk_size)
                    THEN /\ chunks' = [chunks EXCEPT ![last_chunk_key] =
                                          append_sample(last, piece, cur.shape)]
                         /\ log' = Append(log, "chunk_write")
                         /\ pc' = "register"
                         /\ UNCHANGED <<result, batch, pre>>
                    ELSE /\ pc' = "done"
                         /\ result' = [op |-> "extend", err |-> "FullChunk", warn |-> FALSE]
                         /\ batch' = <<>>
                         /\ pre' = NoPre
                         /\ log' = <<>>
                         /\ UNCHANGED chunks
               ELSE /\ pc' = "new_chunk"
                    /\ UNCHANGED <<chunks, log, result, batch, pre>>
    /\ UNCHANGED <<readonly, meta, encExists, enc, cur, written, updated>>
    /\ broken' = (broken \/ pc' = "done")
    /\ UNCHANGED dead

\* _create_new_chunk (lines 304-312), called from _append_to_new_chunk
CreateNewChunk ==
    /\ pc = "new_chunk"
    /\ LET id == FreshChunkId
       IN /\ enc' = generate_chunk_id(enc, id)
          /\ chunks' = (id :> EmptyChunk) @@ chunks
    /\ log' = Append(log, "chunk_insert")
    /\ pc' = "append_new"
    /\ UNCHANGED <<readonly, meta, encExists, batch, cur, result, pre, written, updated, broken, dead>>

\* AppendToNewChunk with a fault: the sample is appended to self.last_chunk,
\* which is still the previous chunk while the new id has no row
AppendToNewChunk_WritesToLast ==
    /\ pc = "append_new"
    /\ LET id == IF num_chunks = 0 THEN enc.latest ELSE last_chunk_key
       IN /\ chunks' = [chunks EXCEPT ![id] = append_sample(@, cur.buf, cur.shape)]
          /\ log' = Append(log, "chunk_write")
          /\ pc' = "register"
          /\ UNCHANGED <<result, batch, pre>>
    /\ UNCHANGED <<readonly, meta, encExists, enc, cur, written, updated, broken, dead>>

\* Line 302: new_chunk.append_sample(buffer, self.max_chunk_size, shape)
AppendToNewChunk ==
    /\ pc = "append_new"
    /\ LET id == enc.latest
       IN IF has_space_for(chunks[id], Len(cur.buf), max_chunk_size)
          THEN /\ chunks' = [chunks EXCEPT ![id] = append_sample(@, cur.buf, cur.shape)]
               /\ log' = Append(log, "chunk_write")
               /\ pc' = "register"
               /\ UNCHANGED <<result, batch, pre>>
          ELSE /\ pc' = "done"
               /\ result' = [op |-> "extend", err |-> "FullChunk", warn |-> FALSE]
               /\ batch' = <<>>
               /\ pre' = NoPre
               /\ log' = <<>>
               /\ UNCHANGED chunks
    /\ UNCHANGED <<readonly, meta, encExists, enc, cur, written, updated>>
    /\ broken' = (broken \/ pc' = "done")
    /\ UNCHANGED dead

\* AppendBytesRegister with a fault: two samples registered for one buffer
AppendBytesRegister_Two ==
    /\ pc = "register"
    /\ enc' = register_samples(enc, 2)
    /\ written' = Append(written, cur)
    /\ log' = Append(log, "register")
    /\ pc' = "sync"
    /\ UNCHANGED <<readonly, meta, encExists, chunks, batch, cur, result, pre, updated, broken, dead>>

\* AppendBytesRegister with a fault: _synchronize_cache called before register_samples
AppendBytesRegister_SyncFirst ==
    /\ pc = "register"
    /\ enc' = register_samples(enc, 1)
    /\ written' = Append(written, cur)
    /\ log' = log \o <<"cache_meta", "cache_encoder", "register">>
    /\ pc' = "loop"
    /\ UNCHANGED <<readonly, meta, encExists, chunks, batch, cur, result, pre, updated, broken, dead>>

\* Lines 217 and 223: num_samples = 1; chunk_id_encoder.register_samples(num_samples)
AppendBytesRegister ==
    /\ pc = "register"
    /\ enc' = register_samples(enc, 1)
    /\ written' = Append(written, cur)
    /\ log' = Append(log, "register")
    /\ pc' = "sync"
    /\ UNCHANGED <<readonly, meta, encExists, chunks, batch, cur, result, pre, updated, broken, dead>>

\* _synchronize_cache (lines 236-249), called at line 224: the cache is told
\* the size of the last chunk, then the tensor meta and the chunk id encoder
\* are written to the cache.
SynchronizeCache ==
    /\ pc = "sync"
    /\ log' = log \o <<"cache_meta", "cache_encoder">>
    /\ encExists' = TRUE
    /\ pc' = "loop"
    /\ UNCHANGED <<readonly, meta, enc, chunks, batch, cur, result, pre, written, updated, broken, dead>>

\* ExtendFlush with a fault: extend returns without calling cache.maybe_flush()
ExtendFlush_NoFlush ==
    /\ pc = "loop"
    /\ batch = <<>>
    /\ pc' = "done"
    /\ result' = [op |-> "extend", err |-> "none", warn |-> FALSE]
    /\ UNCHANGED <<readonly, meta, encExists, enc, chunks, batch, cur, pre, log, written, updated, broken, dead>>

\* Line 332: self.cache.maybe_flush() once the batch is exhausted; extend returns.
ExtendFlush ==
    /\ pc = "loop"
    /\ batch = <<>>
    /\ pc' = "done"
    /\ result' = [op |-> "extend", err |-> "none", warn |-> FALSE]
    /\ log' = Append(log, "maybe_flush")
    /\ UNCHANGED <<readonly, meta, encExists, enc, chunks, batch, cur, pre, written, updated, broken, dead>>

\* The engine catches nothing: an error of the cache or of the codec, or the
\* death of the process, ends a running extend where it stands.  The model
\* follows the abandoned tensor through validation only.
Abandon ==
    /\ ~broken /\ ~updated
    /\ pc \in {"loop", "place", "new_chunk", "append_new", "register", "sync"}
    /\ pc' = "done"
    /\ result' = [op |-> "extend", err |-> "Abandoned", warn |-> FALSE]
    /\ batch' = <<>>
    /\ broken' = TRUE
    /\ dead' = TRUE
    /\ UNCHANGED <<readonly, meta, encExists, enc, chunks, cur, pre, log, written, updated>>

\* the caller takes the outcome
Return ==
    /\ pc = "done"
    /\ pc' = "idle"
    /\ result' = NoResult
    /\ pre' = NoPre
    /\ log' = <<>>
    /\ cur' = NoSample
    /\ UNCHANGED <<readonly, meta, encExists, enc, chunks, batch, written, updated, broken, dead>>

\* ------------------------------------------------------------------ update
\* UpdateLoop with a fault: the global index is used as the index in the chunk
UpdateLoop_GlobalAsLocal(ch, m, nb, start, ser, i) ==
    LET RECURSIVE Loop(_, _, _, _)
        Loop(c0, m0, nb0, k) ==
            IF k > Len(ser) THEN [chunks |-> c0, meta |-> m0, nb |-> nb0, err |-> "none"]
            ELSE LET g     == start + k - 1
                     id    == EncLookup(enc, g)
                     local == g
                     m2    == update_shape_interval(m0, ser[k].shape)
                 IN IF local >= ChunkNumSamples(c0[id])
                    THEN [chunks |-> c0, meta |-> m2, nb |-> nb0, err |-> "IndexError"]
                    ELSE LET c == update_sample(c0[id], local, ser[k].buf, ser[k].shape)
                         IN Loop([c0 EXCEPT ![id] = c], m2,
                                 IF id # last_chunk_key THEN Append(nb0, nbytes(c)) ELSE nb0,
                                 k + 1)
    IN Loop(ch, m, nb, i)

\* UpdateLoop with a fault: the position in the batch is used as the index in
\* the chunk
UpdateLoop_BatchIndexAsLocal(ch, m, nb, start, ser, i) ==
    LET RECURSIVE Loop(_, _, _, _)
        Loop(c0, m0, nb0, k) ==
            IF k > Len(ser) THEN [chunks |-> c0, meta |-> m0, nb |-> nb0, err |-> "none"]
            ELSE LET g     == start + k - 1
                     id    == EncLookup(enc, g)
                     local == k - 1
                     m2    == update_shape_interval(m0, ser[k].shape)
                 IN IF local >= ChunkNumSamples(c0[id])
                    THEN [chunks |-> c0, meta |-> m2, nb |-> nb0, err |-> "IndexError"]
                    ELSE LET c == update_sample(c0[id], local, ser[k].buf, ser[k].shape)
                         IN Loop([c0 EXCEPT ![id] = c], m2,
                                 IF id # last_chunk_key THEN Append(nb0, nbytes(c)) ELSE nb0,
                                 k + 1)
    IN Loop(ch, m, nb, i)

\* The loop of _update_sample (lines 365-380) over the samples i..Len(ser):
\* the chunks, the tensor meta and chunks_nbytes_after_updates it leaves.
RECURSIVE UpdateLoop(_, _, _, _, _, _)
UpdateLoop(ch, m, nb, start, ser, i) ==
    IF i > Len(ser) THEN [chunks |-> ch, meta |-> m, nb |-> nb, err |-> "none"]
    ELSE LET g     == start + i - 1
             id    == EncLookup(enc, g)
             local == translate_index_relative_to_chunks(enc, g)
             m2    == update_shape_interval(m, ser[i].shape)
         IN IF local >= ChunkNumSamples(ch[id])
            \* the chunk's encoders hold no such local sample: the lookup raises
            THEN [chunks |-> ch, meta |-> m2, nb |-> nb, err |-> "IndexError"]
            ELSE LET c == update_sample(ch[id], local, ser[i].buf, ser[i].shape)
                 IN UpdateLoop([ch EXCEPT ![id] = c], m2,
                               IF id # last_chunk_key THEN Append(nb, nbytes(c)) ELSE nb,
                               start, ser, i + 1)

\* _warn_if_suboptimal_chunks (lines 594-605), CHUNK_UPDATE_WARN_PORTION = 0.2
_warn_if_suboptimal_chunks(nb, min, max) ==
    \E i \in 1..Len(nb) : nb[i] * 10 > max * 12 \/ nb[i] * 10 < min * 8

\* what a completed _update_sample has done, in order: one Chunk.update_sample
\* per sample (line 375), one cache write per updated chunk (lines 383-384),
\* _synchronize_cache(chunk_keys=[]) (line 386), cache.maybe_flush() (line 387)
UpdateSteps(start, n) ==
    LET updated_chunks == {EncLookup(enc, g) : g \in start..(start + n - 1)}
    IN [i \in 1..n |-> "update_sample"]
       \o [i \in 1..Cardinality(updated_chunks) |-> "cache_chunk"]
       \o <<"cache_meta", "cache_encoder", "maybe_flush">>

\* The samples argument of update: a list (or a batched array) has a length,
\* a single Sample object or numpy scalar has none; a numpy array or a Sample
\* has a shape attribute.  value holds the arrays, one per item.
ListOf(q) == [has_len |-> TRUE, has_shape |-> FALSE, value |-> q]
BatchOf(q) == [has_len |-> TRUE, has_shape |-> TRUE, value |-> q]
SampleOf(a) == [has_len |-> FALSE, has_shape |-> TRUE, value |-> <<a>>]

\* _make_sequence (lines 557-591): the sequence returned (seq), or ValueError.
\* nested: the one item of the sequence is itself the whole list passed in
\* (samples = [samples] at line 576).
_make_sequence(samples, index_length) ==
    LET shape   == samples.value[1].shape
        wrapped == /\ index_length = 1
                   /\ IF samples.has_len THEN Len(samples.value) # 1
                      ELSE IF samples.has_shape THEN Len(shape) > 0 /\ shape[1] # 1
                      ELSE TRUE
        has_len == wrapped \/ samples.has_len
        len     == IF wrapped THEN 1 ELSE Len(samples.value)
        nested  == wrapped /\ samples.has_len
    IN IF has_len /\ index_length # len
       THEN [err |-> "ValueError", seq |-> <<>>, nested |-> FALSE]
       ELSE [err |-> "none",
             seq |-> IF nested THEN <<samples.value>> ELSE samples.value,
             nested |-> nested]

\* an update call that raises err before it has modified anything; p is what
\* the history keeps of the call
UpdateRaises(err, single, p) ==
    /\ result' = [op |-> "update", err |-> err, warn |-> FALSE, single |-> single]
    /\ pre' = p
    /\ UNCHANGED <<meta, chunks, written, updated, log>>

\* _update_sample (lines 350-391) for the index start..stop-1 of the primary
\* axis.  A list passed as the one sample of a single index becomes an array
\* of one more dimension, which the tensor meta rejects at line 374, before
\* the chunk is written; with more samples than indices line 366 raises.
\* single is the call's is_single_dim_effective, kept for the outcome.
_update_sample(start, stop, samples, single) ==
    LET index_length == stop - start
        made == _make_sequence(samples, index_length)
        call == [length |-> meta.length, num_samples |-> num_samples,
                 num_chunks |-> num_chunks, n |-> 0, start |-> start, samples |-> <<>>,
                 enc |-> enc, index_length |-> index_length,
                 given |-> IF samples.has_len THEN Len(samples.value) ELSE 1,
                 made_err |-> made.err, made_len |-> Len(made.seq)]
    IN /\ ~broken
       /\ stop <= num_samples
       /\ IF made.err # "none" THEN UpdateRaises(made.err, single, call)
          ELSE IF made.nested THEN UpdateRaises("InvalidShape", single, call)
          ELSE IF \E i \in 1..Len(made.seq) :
                     Len(SerializeSample(made.seq[i]).buf) > max_chunk_size
          THEN UpdateRaises("SampleTooLarge", single, call)
          ELSE IF Len(made.seq) > index_length THEN UpdateRaises("IndexError", single, call)
          ELSE LET ser == serialize_input_samples(made.seq)
                   out == UpdateLoop(chunks, meta, <<>>, start, ser, 1)
               IN /\ chunks' = out.chunks
                  /\ meta' = out.meta
                  /\ result' = [op |-> "update", err |-> out.err,
                                warn |-> /\ out.err = "none"
                                         /\ _warn_if_suboptimal_chunks(
                                               out.nb, min_chunk_size, max_chunk_size),
                                single |-> single]
                  /\ written' = [g \in 1..Len(written) |->
                                   IF g - 1 >= start /\ g - 1 < start + Len(ser)
                                   THEN ser[g - start] ELSE written[g]]
                  /\ updated' = (updated \/ Len(ser) > 0)
                  /\ log' = IF out.err = "none" THEN UpdateSteps(start, Len(ser)) ELSE <<>>
                  /\ pre' = [call EXCEPT !.n = Len(ser), !.samples = ser]

\* _update_sample_subslice (lines 393-399)
_update_sample_subslice(samples) ==
    UpdateRaises(IF ~samples.has_shape THEN "UpdateSampleError" ELSE "NotImplementedError",
                 FALSE, pre)

\* UpdateEntry with a fault: a numpy array for a sub-slice index is handed to
\* _update_sample instead of raising NotImplementedError
UpdateEntry_ArrayFallsThrough(start, stop, samples, single) ==
    /\ pc = "idle"
    /\ ~dead
    /\ pc' = "done"
    /\ IF readonly
       THEN /\ UpdateRaises("ReadOnly", single, pre)
            /\ UNCHANGED <<encExists, enc>>
       ELSE IF ~chunk_id_encoder_exists /\ meta.length > 1
       THEN /\ UpdateRaises("Corrupted", single, pre)
            /\ UNCHANGED <<encExists, enc>>
       ELSE /\ encExists' = TRUE
            /\ enc' = IF chunk_id_encoder_exists THEN enc ELSE BlankEncoder
            /\ IF single \/ samples.has_shape
               THEN _update_sample(start, stop, samples, single)
               ELSE _update_sample_subslice(samples)
    /\ UNCHANGED <<readonly, batch, cur, broken, dead>>

\* ChunkEngine.update (lines 338-347): check_readonly, the access to
\* self.chunk_id_encoder, then _update_sample or _update_sample_subslice.
\* The index addresses the samples start..stop-1 of the primary axis; single
\* says whether it addresses nothing else (is_single_dim_effective).
UpdateEntry(start, stop, samples, single) ==
    /\ pc = "idle"
    /\ ~dead
    /\ pc' = "done"
    /\ IF readonly
       THEN /\ UpdateRaises("ReadOnly", single, pre)
            /\ UNCHANGED <<encExists, enc>>
       ELSE IF ~chunk_id_encoder_exists /\ meta.length > 1
       THEN /\ UpdateRaises("Corrupted", single, pre)
            /\ UNCHANGED <<encExists, enc>>
       ELSE /\ encExists' = TRUE
            /\ enc' = IF chunk_id_encoder_exists THEN enc ELSE BlankEncoder
            /\ IF single
               THEN _update_sample(start, stop, samples, single)
               ELSE _update_sample_subslice(samples)
    /\ UNCHANGED <<readonly, batch, cur, broken, dead>>

\* an update of the samples start..start+n-1 of the primary axis (a single
\* index or a slice of two) with a list of n samples
UpdateLengths == {1, 2}
UpdateCall ==
    \E start \in 0..(MaxSamples - 1), n \in UpdateLengths :
        \E samples \in SeqsOf(Arrays, n) : UpdateEntry(start, start + n, ListOf(samples), TRUE)

\* an update of a slice of 0, 1 or 2 samples with one Sample object, as the
\* first update of a tensor
SliceLengths == {0, 1, 2}
UpdateSampleCall ==
    /\ ~updated
    /\ \E start \in 0..(MaxSamples - 1), n \in SliceLengths, a \in Arrays :
          UpdateEntry(start, start + n, SampleOf(a), TRUE)

\* an update of the first n samples with a list whose length differs from n,
\* as the first update of a tensor
UpdateWrongLengthCall ==
    /\ ~updated
    /\ \E n \in SliceLengths, k \in SliceLengths \ {0} :
          /\ k # n
          /\ \E samples \in SeqsOf(Arrays, k) : UpdateEntry(0, n, ListOf(samples), TRUE)

\* an update whose index also addresses another axis
UpdateSubsliceCall ==
    \E sample \in Arrays, has_shape \in BOOLEAN :
        UpdateEntry(0, 1, IF has_shape THEN BatchOf(<<sample>>) ELSE ListOf(<<sample>>), FALSE)

\* ------------------------------------------------------------- validation
\* Validate with a fault: an encoder missing from the cache is not compared
Validate_MissingIsSynced ==
    /\ pc = "idle"
    /\ pc' = "done"
    /\ LET tensor_meta_length == meta.length
           chunk_id_num_samples == IF chunk_id_encoder_exists THEN EncNumSamples(enc)
                                   ELSE tensor_meta_length
       IN result' = [op |-> "validate",
                     err |-> IF tensor_meta_length # chunk_id_num_samples
                             THEN "Corrupted" ELSE "none",
                     warn |-> FALSE]
    /\ UNCHANGED <<readonly, meta, encExists, enc, chunks, batch, cur, pre, log,
                   written, updated, broken, dead>>

\* validate_num_samples_is_synchronized (lines 511-531)
Validate ==
    /\ pc = "idle"
    /\ pc' = "done"
    /\ LET tensor_meta_length == meta.length
           chunk_id_num_samples == IF chunk_id_encoder_exists THEN EncNumSamples(enc) ELSE 0
       IN result' = [op |-> "validate",
                     err |-> IF tensor_meta_length # chunk_id_num_samples
                             THEN "Corrupted" ELSE "none",
                     warn |-> FALSE]
    /\ UNCHANGED <<readonly, meta, encExists, enc, chunks, batch, cur, pre, log,
                   written, updated, broken, dead>>

\* ------------------------------------------------------------ environment
\* the ChunkIdEncoder blob is deleted from the cache by hand
DeleteEncoder ==
    /\ pc = "idle"
    /\ ~broken /\ ~updated
    /\ encExists
    /\ encExists' = FALSE
    /\ enc' = BlankEncoder
    /\ broken' = TRUE
    /\ UNCHANGED <<readonly, meta, chunks, pc, batch, cur, result, pre, log, written, updated, dead>>

\* the storage is reopened read-only / writable
SetReadOnly ==
    /\ pc = "idle"
    /\ readonly' = ~readonly
    /\ UNCHANGED <<meta, encExists, enc, chunks, pc, batch, cur, result, pre, log,
                   written, updated, broken, dead>>

\* ----------------------------------------------------------- specification
Next ==
    \/ ExtendCall
    \/ AppendCall
    \/ ExtendNextSample
    \/ TryAppendingToLastChunk
    \/ CreateNewChunk
    \/ AppendToNewChunk
    \/ AppendBytesRegister
    \/ SynchronizeCache
    \/ ExtendFlush
    \/ Abandon
    \/ Return
    \/ UpdateCall
    \/ UpdateSampleCall
    \/ UpdateWrongLengthCall
    \/ UpdateSubsliceCall
    \/ Validate
    \/ DeleteEncoder
    \/ SetReadOnly

Spec == Init /\ [][Next]_vars

\* The docstring example of ChunkEngine.__init__: a tensor with a max chunk
\* size of 32 that receives the samples of the example, in the example's
\* order, by extend calls of the two batches or by single appends.
InitExample ==
    /\ readonly = FALSE
    /\ meta = BlankMeta(ExampleMaxChunkSize)
    /\ encExists = FALSE
    /\ enc = BlankEncoder
    /\ chunks = <<>>
    /\ pc = "idle"
    /\ batch = <<>>
    /\ cur = NoSample
    /\ result = NoResult
    /\ pre = NoPre
    /\ log = <<>>
    /\ written = <<>>
    /\ updated = FALSE
    /\ broken = FALSE
    /\ dead = FALSE

ExampleExtend ==
    \/ meta.length = 0 /\ ExtendEntry(ExampleFirst, Len(ExampleAll))
    \/ meta.length = Len(ExampleFirst) /\ ExtendEntry(ExampleSecond, Len(ExampleAll))

ExampleAppend ==
    /\ meta.length < Len(ExampleAll)
    /\ ExtendEntry(<<ExampleAll[meta.length + 1]>>, Len(ExampleAll))

\* scenario: sample 0 is updated from 1 MB to 20 MB once all seven samples are in
ExampleUpdate ==
    /\ meta.length = Len(ExampleAll)
    /\ UpdateEntry(0, 1, ListOf(<<Arr(<<1, 20>>)>>), TRUE)

NextExample ==
    \/ ExampleExtend
    \/ ExampleAppend
    \/ ExampleUpdate
    \/ ExtendNextSample
    \/ TryAppendingToLastChunk
    \/ CreateNewChunk
    \/ AppendToNewChunk
    \/ AppendBytesRegister
    \/ SynchronizeCache
    \/ ExtendFlush
    \/ Abandon
    \/ Return
    \/ Validate
    \/ DeleteEncoder
    \/ SetReadOnly

SpecExample == InitExample /\ [][NextExample]_vars

\* -------------------------------------------------------------------- reads
\* get_chunk_for_sample (lines 436-454)
get_chunk_for_sample(g) == chunks[EncLookup(enc, g)]

Prod(shape) == IF shape = <<>> THEN 1 ELSE shape[1] * shape[2]

\* the buffer slice of read_sample_from_chunk (lines 466-471)
SampleBuffer(g) ==
    LET chunk == get_chunk_for_sample(g)
        local_sample_index == translate_index_relative_to_chunks(enc, g)
        sb == chunk.pos[local_sample_index + 1][1]
        eb == chunk.pos[local_sample_index + 1][2]
    IN SubSeq(chunk.data, sb + 1, eb)

\* read_sample_from_chunk (lines 456-483) on an uncompressed uint8 tensor:
\* zeros for an empty buffer, else frombuffer(...).reshape(shape)
read_sample_from_chunk(g) ==
    LET chunk == get_chunk_for_sample(g)
        local_sample_index == translate_index_relative_to_chunks(enc, g)
        shape == chunk.shapes[local_sample_index + 1]
        buffer == SampleBuffer(g)
    IN IF Len(buffer) = 0
       THEN [shape |-> shape, elems |-> [i \in 1..Prod(shape) |-> 0]]
       ELSE IF Len(buffer) = Prod(shape)
       THEN [shape |-> shape, elems |-> buffer]
       ELSE [shape |-> <<>>, elems |-> <<"ValueError">>]

\* the codec's decompress(buffer, shape): the bytes are stored in reverse
decompress_array(buffer, shape) ==
    [shape |-> shape, elems |-> [i \in 1..Len(buffer) |-> buffer[Len(buffer) + 1 - i]]]

\* ReadSampleFromChunk with a fault: the empty buffer is tested after the
\* compressed branch
ReadSampleFromChunk_DecompressFirst(g, expect_compressed) ==
    LET chunk == get_chunk_for_sample(g)
        local_sample_index == translate_index_relative_to_chunks(enc, g)
        shape == chunk.shapes[local_sample_index + 1]
        buffer == SampleBuffer(g)
    IN IF expect_compressed
       THEN [sample |-> decompress_array(buffer, shape), decompressed |-> TRUE]
       ELSE IF Len(buffer) = 0
       THEN [sample |-> [shape |-> shape, elems |-> [i \in 1..Prod(shape) |-> 0]],
             decompressed |-> FALSE]
       ELSE [sample |-> read_sample_from_chunk(g), decompressed |-> FALSE]

\* read_sample_from_chunk (lines 456-483) for a tensor with or without
\* sample_compression (line 461): the array returned and whether
\* decompress_array was called
ReadSampleFromChunk(g, expect_compressed) ==
    LET chunk == get_chunk_for_sample(g)
        local_sample_index == translate_index_relative_to_chunks(enc, g)
        shape == chunk.shapes[local_sample_index + 1]
        buffer == SampleBuffer(g)
    IN IF Len(buffer) = 0
       THEN [sample |-> [shape |-> shape, elems |-> [i \in 1..Prod(shape) |-> 0]],
             decompressed |-> FALSE]
       ELSE IF expect_compressed
       THEN [sample |-> decompress_array(buffer, shape), decompressed |-> TRUE]
       ELSE [sample |-> read_sample_from_chunk(g), decompressed |-> FALSE]

\* the binary search of ChunkIdEncoder.__getitem__ over the last-index column:
\* the number of rows whose last index is below g
RECURSIVE Bisect(_, _, _, _)
Bisect(e, g, lo, hi) ==
    IF lo >= hi THEN lo
    ELSE LET mid == (lo + hi) \div 2
         IN IF e.rows[mid + 1].last < g THEN Bisect(e, g, mid + 1, hi)
            ELSE Bisect(e, g, lo, mid)
SearchRow(e, g) == Bisect(e, g, 0, Len(e.rows)) + 1

\* ChunkIdEncoder.iter over the slice lo..hi, as Tensor.__iter__ (tensor.py
\* lines 197-203) consumes it: the (chunk id, local index) pairs in the order
\* they are yielded
EncIter(lo, hi) ==
    [k \in 1..(hi - lo + 1) |->
        LET r == SearchRow(enc, lo + k - 1)
        IN <<enc.rows[r].id,
             IF r = 1 THEN lo + k - 1 ELSE lo + k - 1 - enc.rows[r - 1].last - 1>>]

\* index.values[0].indices(length): the addressed global indices, ascending
RECURSIVE IndexSeq(_)
IndexSeq(S) ==
    IF S = {} THEN <<>>
    ELSE LET m == CHOOSE x \in S : \A y \in S : x <= y
         IN <<m>> \o IndexSeq(S \ {m})
\* the indexes a caller may pass: any selection of stored samples
Indexes == {IndexSeq(S) : S \in SUBSET (0..(num_samples - 1))}

\* last_shape = None
NoShape == <<>>

\* ChunkEngine.numpy with a fault: the shapes are compared when aslist is set
NumpyLoop_CheckWhenList(idx, aslist, i, last_shape, samples) ==
    LET RECURSIVE Loop(_, _, _)
        Loop(k, ls, acc) ==
            IF k > Len(idx) THEN [err |-> "none", samples |-> acc]
            ELSE LET sample == read_sample_from_chunk(idx[k])
                 IN IF aslist /\ ls # NoShape /\ sample.shape # ls
                    THEN [err |-> "DynamicTensorNumpyError", samples |-> <<>>]
                    ELSE Loop(k + 1, sample.shape, Append(acc, sample))
    IN Loop(i, last_shape, samples)

\* the loop of ChunkEngine.numpy (lines 421-432) from the i-th addressed index
RECURSIVE NumpyLoop(_, _, _, _, _)
NumpyLoop(idx, aslist, i, last_shape, samples) ==
    IF i > Len(idx) THEN [err |-> "none", samples |-> samples]
    ELSE LET sample == read_sample_from_chunk(idx[i])
             shape  == sample.shape
         IN IF ~aslist /\ last_shape # NoShape /\ shape # last_shape
            THEN [err |-> "DynamicTensorNumpyError", samples |-> <<>>]
            ELSE NumpyLoop(idx, aslist, i + 1, shape, Append(samples, sample))

\* ChunkEngine.numpy (lines 401-434); Tensor.numpy (lines 205-224) forwards
\* to it with the tensor's index
numpy(idx, aslist) == NumpyLoop(idx, aslist, 1, NoShape, <<>>)

\* get_chunk_names with a fault: the scan advances by two samples
get_chunk_names_SkipsSamples(sample_index, last_index, target_chunk_count) ==
    LET RECURSIVE Loop(_, _)
        Loop(chunk_names, i) ==
            IF Cardinality(chunk_names) < target_chunk_count /\ i < last_index
            THEN Loop(chunk_names \cup {EncLookup(enc, i)}, i + 2)
            ELSE [names |-> chunk_names, last_visited |-> i]
    IN Loop({}, sample_index)

\* get_chunk_names (lines 485-509): the set of names returned, and the value
\* of sample_index when the while loop stops
get_chunk_names(sample_index, last_index, target_chunk_count) ==
    LET RECURSIVE Loop(_, _)
        Loop(chunk_names, i) ==
            IF Cardinality(chunk_names) < target_chunk_count /\ i < last_index
            THEN Loop(chunk_names \cup {EncLookup(enc, i)}, i + 1)
            ELSE [names |-> chunk_names, last_visited |-> i]
    IN Loop({}, sample_index)

\* the target_chunk_count values a caller may pass
Targets == 0..(MaxSamples + 1)

\* Tensor.shape_interval (tensor.py lines 136-160) of the whole tensor
shape_interval ==
    [lower |-> <<TensorLen>> \o meta.min_shape,
     upper |-> <<TensorLen>> \o meta.max_shape]

\* ------------------------------------------------------------ observations
AtRest == pc \in {"idle", "done"}
Rows == enc.rows
RowChunk(r) == chunks[Rows[r].id]
\* number of rows of the encoder whose index range holds g
RowsHolding(g) ==
    Cardinality({r \in 1..Len(Rows) :
                    /\ g <= Rows[r].last
                    /\ (r = 1 \/ g > Rows[r - 1].last)})
RECURSIVE SumChunkBytes(_)
SumChunkBytes(ids) ==
    IF ids = {} THEN 0
    ELSE LET id == CHOOSE x \in ids : TRUE
         IN num_data_bytes(chunks[id]) + SumChunkBytes(ids \ {id})
WrittenBytes == SumSeq([i \in 1..Len(written) |-> Len(written[i].buf)])

\* ================================================================== claims

\* C1: after any sequence of completed extend / append / update calls none of
\* which failed midway, TensorMeta.length equals ChunkIdEncoder.num_samples
\* and both equal the number of samples stored in the chunks.
C1_LengthSynchronized ==
    (AtRest /\ ~broken) =>
        /\ meta.length = num_samples
        /\ num_samples = ChunkSampleTotal
C1_Witness ==
    /\ pc = "done" /\ ~broken /\ updated
    /\ result.op = "extend" /\ result.err = "none"
    /\ meta.length = 3 /\ num_chunks = 2

\* C2 (as claimed): after appends only, every chunk other than the last one
\* holds at least min_chunk_size data bytes.
C2_NonLastChunksReachMin ==
    (AtRest /\ ~broken /\ ~updated) =>
        \A r \in 1..(Len(Rows) - 1) : num_data_bytes(RowChunk(r)) >= min_chunk_size

\* C3: after appends only (every buffer at most max_chunk_size), no chunk
\* holds more than max_chunk_size data bytes and no chunk was ever handed
\* bytes it cannot hold.
C3_NoChunkOverMax ==
    ~updated =>
        /\ \A id \in DOMAIN chunks : num_data_bytes(chunks[id]) <= max_chunk_size
        /\ result.err # "FullChunk"
C3_Witness ==
    /\ ~updated /\ ~broken /\ pc = "done" /\ result.err = "none"
    /\ \E id \in DOMAIN chunks :
          /\ num_data_bytes(chunks[id]) = max_chunk_size
          /\ ChunkNumSamples(chunks[id]) >= 2

\* C4 (as claimed): with max 32 and min 16, the samples 1, 1, 14, 15, 15 give
\* two chunks, samples 0..3 (31 units) and sample 4 (15 units); after 15 and 1
\* more the second chunk holds 31 units and there are still two chunks.
C4_DocstringExample ==
    (AtRest /\ ~broken) =>
        /\ meta.length = 5 =>
              /\ num_chunks = 2
              /\ Rows[1].last = 3 /\ num_data_bytes(RowChunk(1)) = 31
              /\ Rows[2].last = 4 /\ num_data_bytes(RowChunk(2)) = 15
        /\ meta.length = 7 =>
              /\ num_chunks = 2
              /\ num_data_bytes(RowChunk(2)) = 31

\* C5: after extend / append calls only, reading any global index g returns
\* the bytes and the shape of the g-th sample appended, from exactly one
\* chunk; the chunks hold no other bytes (no sample is split or duplicated).
C5_ReadRoundTrip ==
    (AtRest /\ ~broken /\ ~updated) =>
        /\ Len(written) = meta.length
        /\ \A g \in 0..(meta.length - 1) :
              /\ RowsHolding(g) = 1
              /\ SampleBuffer(g) = written[g + 1].buf
              /\ read_sample_from_chunk(g).shape = written[g + 1].shape
              /\ Len(written[g + 1].buf) > 0 =>
                    read_sample_from_chunk(g).elems = written[g + 1].buf
        /\ SumChunkBytes(DOMAIN chunks) = WrittenBytes
C5_Witness ==
    /\ pc = "done" /\ ~broken /\ ~updated /\ result.err = "none"
    /\ meta.length = 3 /\ num_chunks = 2
    /\ \E g \in 1..2 : /\ translate_index_relative_to_chunks(enc, g) > 0
                       /\ Len(SampleBuffer(g)) > 1

\* C6: a completed extend of n samples increases TensorMeta.length,
\* num_samples and len(tensor) by exactly n; no step of the engine decreases
\* length or num_samples; a registered sample adds 0 or 1 chunk.
C6_ExtendGrowsByN ==
    /\ [](pc = "done" /\ result.op = "extend" /\ result.err = "none" =>
            /\ meta.length = pre.length + pre.n
            /\ num_samples = pre.num_samples + pre.n
            /\ TensorLen = pre.num_samples + pre.n
            /\ num_chunks >= pre.num_chunks
            /\ num_chunks <= pre.num_chunks + pre.n)
    /\ [][~DeleteEncoder =>
            /\ meta.length' >= meta.length
            /\ num_samples' >= num_samples
            /\ num_chunks' \in {num_chunks, num_chunks + 1}
            /\ num_chunks' # num_chunks => num_samples' = num_samples + 1]_vars
C6_Witness ==
    /\ pc = "done" /\ result.op = "extend" /\ result.err = "none"
    /\ pre.n = 2 /\ pre.length = 1 /\ meta.length = 3
    /\ num_chunks = pre.num_chunks + 1

\* C7: on read-only storage extend, append and update fail with ReadOnly at
\* their entry and leave the tensor meta, the chunk id encoder (and whether it
\* exists) and every chunk unchanged.
C7_ReadOnlyRejects ==
    [][(readonly /\ pc = "idle" /\ pc' # "idle" /\ result'.op # "validate") =>
          /\ pc' = "done"
          /\ result'.op \in {"extend", "update"}
          /\ result'.err = "ReadOnly"
          /\ UNCHANGED <<meta, encExists, enc, chunks>>]_vars
C7_Witness ==
    /\ readonly /\ pc = "done" /\ result.err = "ReadOnly" /\ result.op = "update"
    /\ meta.length >= 2 /\ ~broken

\* C8: validate_num_samples_is_synchronized raises Corrupted exactly when
\* TensorMeta.length differs from the encoder's num_samples, an encoder
\* missing from the cache counting as 0 samples, and changes no state.
C8_ValidateIffOutOfSync ==
    [][(pc = "idle" /\ pc' = "done" /\ result'.op = "validate") =>
          /\ (result'.err = "Corrupted") <=>
                (meta.length # (IF encExists THEN EncNumSamples(enc) ELSE 0))
          /\ result'.err \in {"Corrupted", "none"}
          /\ UNCHANGED <<readonly, meta, encExists, enc, chunks>>]_vars
C8_Witness ==
    /\ pc = "done" /\ result.op = "validate" /\ result.err = "Corrupted"
    /\ ~encExists /\ meta.length = 5

\* the two orders in which one _append_bytes touches the tensor
AppendOrderMerge == <<"meta_length", "chunk_write", "register",
                      "cache_meta", "cache_encoder", "maybe_flush">>
AppendOrderNewChunk == <<"meta_length", "chunk_insert", "chunk_write", "register",
                         "cache_meta", "cache_encoder", "maybe_flush">>
IsPrefix(p, q) == Len(p) <= Len(q) /\ SubSeq(q, 1, Len(p)) = p
\* in the steps logged for the sample being appended, b never comes without an earlier a
Before(a, b) == \A i \in 1..Len(log) : log[i] = b => \E j \in 1..(i - 1) : log[j] = a

\* C9 (as claimed): in every append the cache writes of the tensor meta and of
\* the chunk id encoder, and the registration of the sample, come before the
\* insertion of the chunk into the cache and before the write of the bytes.
C9_MetaWritesBeforeChunk ==
    /\ Before("cache_meta", "chunk_insert") /\ Before("cache_meta", "chunk_write")
    /\ Before("cache_encoder", "chunk_insert") /\ Before("cache_encoder", "chunk_write")
    /\ Before("register", "chunk_insert") /\ Before("register", "chunk_write")

\* C9 (amended): in every append the update of the tensor meta (shape
\* interval, length + 1) comes first, then the insertion of a new chunk and
\* the write of the bytes, then the registration in the chunk id encoder, and
\* only then the cache writes of the tensor meta and of the encoder.
C9_LengthThenChunkThenSync ==
    result.op # "update" =>
        IsPrefix(log, AppendOrderMerge) \/ IsPrefix(log, AppendOrderNewChunk)
C9_Witness ==
    /\ pc = "done" /\ result.op = "extend" /\ result.err = "none"
    /\ log = AppendOrderNewChunk /\ meta.length = 2

\* C10: from a synchronized tensor, at every point of an extend, and in what
\* an extend abandoned there leaves behind, length >= samples in chunks >=
\* num_samples and length - num_samples <= 1.
C10_LengthLeads ==
    (~broken \/ dead) =>
        /\ meta.length >= ChunkSampleTotal
        /\ ChunkSampleTotal >= num_samples
        /\ meta.length - num_samples <= 1
C10_Witness ==
    /\ dead /\ pc = "done" /\ result.err = "Abandoned"
    /\ meta.length = 2 /\ ChunkSampleTotal = 2 /\ num_samples = 1

\* C11: numpy(index, aslist=False) fails with DynamicTensorNumpyError exactly
\* when the addressed samples do not all have one shape, and otherwise
\* returns the addressed samples; numpy(index, aslist=True) never fails and
\* returns one array per addressed sample with the shape it was stored with.
C11_NumpyDynamicShape ==
    (pc = "idle" /\ ~broken) =>
        \A idx \in Indexes :
            LET mixed == \E a, b \in 1..Len(idx) :
                            written[idx[a] + 1].shape # written[idx[b] + 1].shape
                one   == numpy(idx, FALSE)
                list  == numpy(idx, TRUE)
            IN /\ (one.err = "DynamicTensorNumpyError") <=> mixed
               /\ one.err = "none" => one.samples = list.samples
               /\ list.err = "none"
               /\ Len(list.samples) = Len(idx)
               /\ \A k \in 1..Len(idx) :
                     list.samples[k].shape = written[idx[k] + 1].shape
C11_Witness ==
    /\ pc = "idle" /\ ~broken /\ num_samples = 3
    /\ written[1].shape = written[3].shape
    /\ written[2].shape # written[1].shape
    /\ numpy(<<0, 1, 2>>, FALSE).err = "DynamicTensorNumpyError"
    /\ numpy(<<0, 2>>, FALSE).err = "none"
    /\ Len(numpy(<<0, 1, 2>>, TRUE).samples) = 3

\* the global indices addressed by the index of the update that has just
\* returned
Addressed == pre.start..(pre.start + pre.index_length - 1)

\* C12 (as claimed): a completed update leaves TensorMeta.length, num_samples,
\* num_chunks and the map from global index to (chunk, local index)
\* unchanged; every index it addresses reads back the new buffer and shape,
\* and every index reads back what was last written to it, so that an update
\* changes no index it does not address.
C12_UpdateKeepsLayout ==
    /\ (AtRest /\ ~broken) =>
          \A g \in 0..(meta.length - 1) :
              /\ SampleBuffer(g) = written[g + 1].buf
              /\ read_sample_from_chunk(g).shape = written[g + 1].shape
    /\ (pc = "done" /\ result.op = "update" /\ result.err = "none") =>
          /\ meta.length = pre.length
          /\ num_samples = pre.num_samples
          /\ num_chunks = pre.num_chunks
          /\ encExists /\ enc = pre.enc
          /\ \A id \in DOMAIN chunks :
                ChunkNumSamples(chunks[id]) =
                   Cardinality({g \in 0..(num_samples - 1) : EncLookup(pre.enc, g) = id})
          /\ \A g \in Addressed :
                /\ g - pre.start + 1 \in 1..Len(pre.samples)
                /\ SampleBuffer(g) = pre.samples[g - pre.start + 1].buf
                /\ read_sample_from_chunk(g).shape = pre.samples[g - pre.start + 1].shape

\* nbytes outside [0.8 * min_chunk_size, 1.2 * max_chunk_size]
Suboptimal(c) ==
    \/ nbytes(c) * 10 > max_chunk_size * 12
    \/ nbytes(c) * 10 < min_chunk_size * 8

\* C13 (as claimed): a completed update batch warns exactly when, after the
\* whole batch, some chunk it addressed other than the tail chunk has nbytes
\* above 1.2 * max_chunk_size or below 0.8 * min_chunk_size; a batch that
\* addresses only the tail chunk never warns.
C13_WarnIffSuboptimalAfterBatch ==
    (pc = "done" /\ result.op = "update" /\ result.err = "none") =>
        (result.warn <=>
            \E g \in Addressed :
                /\ EncLookup(enc, g) # last_chunk_key
                /\ Suboptimal(get_chunk_for_sample(g)))

\* C14 (as claimed): with max 32 and min 16, after the samples 1, 1, 14, 15,
\* 15 and then 15, 1, updating sample 0 from 1 to 20 units makes chunk 0 hold
\* 50 units, more than 1.2 * max_chunk_size, and the warning is emitted.
C14_UpdateGrowsChunkTo50 ==
    (pc = "done" /\ result.op = "update" /\ result.err = "none") =>
        /\ num_data_bytes(get_chunk_for_sample(0)) = 50
        /\ Suboptimal(get_chunk_for_sample(0))
        /\ result.warn

\* an update call whose index addresses more than the primary axis returns
SubsliceUpdateReturns ==
    pc = "idle" /\ pc' = "done" /\ result'.op = "update" /\ ~result'.single

\* C15 (as claimed): an update whose index addresses anything beyond the
\* primary axis always fails with UpdateSampleError or NotImplementedError
\* and modifies no chunk and no TensorMeta field.
C15_SubsliceAlwaysUnsupported ==
    [][SubsliceUpdateReturns =>
          /\ result'.err \in {"UpdateSampleError", "NotImplementedError"}
          /\ UNCHANGED <<chunks, meta>>]_vars

\* C15 (amended): such an update always fails and modifies no chunk and no
\* TensorMeta field; it fails with ReadOnly on read-only storage, with
\* Corrupted when the chunk id encoder is missing and length > 1, and with
\* UpdateSampleError or NotImplementedError in every other case.
C15_SubsliceUnsupportedWhenWritable ==
    [][SubsliceUpdateReturns =>
          /\ result'.err =
                IF readonly THEN "ReadOnly"
                ELSE IF ~encExists /\ meta.length > 1 THEN "Corrupted"
                ELSE IF result'.err = "NotImplementedError" THEN "NotImplementedError"
                ELSE "UpdateSampleError"
          /\ UNCHANGED <<chunks, meta, written>>]_vars
C15_Witness ==
    /\ pc = "done" /\ result.op = "update" /\ ~result.single
    /\ result.err = "NotImplementedError"
    /\ ~readonly /\ ~broken /\ num_samples = 3 /\ num_chunks = 2

\* element-wise minimum / maximum of the shapes of the samples written
WrittenMin(d) == CHOOSE v \in {written[i].shape[d] : i \in 1..Len(written)} :
                    \A i \in 1..Len(written) : v <= written[i].shape[d]
WrittenMax(d) == CHOOSE v \in {written[i].shape[d] : i \in 1..Len(written)} :
                    \A i \in 1..Len(written) : v >= written[i].shape[d]

\* min_shape <= shape <= max_shape, element-wise
InInterval(shape) ==
    /\ Len(meta.min_shape) = Len(shape) /\ Len(meta.max_shape) = Len(shape)
    /\ \A d \in 1..Len(shape) :
          meta.min_shape[d] <= shape[d] /\ shape[d] <= meta.max_shape[d]

\* C16: after completed appends and updates every stored sample's shape lies
\* element-wise between min_shape and max_shape; after appends only,
\* min_shape and max_shape are exactly the element-wise minimum and maximum
\* of the appended shapes; Tensor.shape_interval is (length, *min_shape) ..
\* (length, *max_shape).
C16_ShapeInterval ==
    (pc = "idle" /\ ~broken) =>
        /\ \A g \in 0..(meta.length - 1) : InInterval(read_sample_from_chunk(g).shape)
        /\ (~updated /\ meta.length > 0) =>
              /\ meta.min_shape = <<WrittenMin(1), WrittenMin(2)>>
              /\ meta.max_shape = <<WrittenMax(1), WrittenMax(2)>>
        /\ meta.length = 0 => meta.min_shape = <<>> /\ meta.max_shape = <<>>
        /\ shape_interval.lower = <<meta.length>> \o meta.min_shape
        /\ shape_interval.upper = <<meta.length>> \o meta.max_shape
C16_Witness ==
    /\ pc = "idle" /\ ~broken /\ ~updated /\ meta.length = 2
    /\ written[1].shape = <<1, 1>> /\ written[2].shape = <<1, 3>>
    /\ shape_interval = [lower |-> <<2, 1, 1>>, upper |-> <<2, 1, 3>>]

\* C17: on a tensor built by completed appends, get_chunk_names(0, length, n)
\* returns at least n names whenever num_chunks >= n, the names returned are
\* exactly those of the chunks holding the samples [0, last_visited), and the
\* scan stops within the tensor.
C17_ChunkNamesFromStart ==
    (pc = "idle" /\ ~broken) =>
        \A n \in Targets :
            LET r == get_chunk_names(0, meta.length, n)
            IN /\ num_chunks >= n => Cardinality(r.names) >= n
               /\ r.names = {Rows[q].id : q \in {x \in 1..Len(Rows) :
                                 \E g \in 0..(r.last_visited - 1) :
                                    /\ g <= Rows[x].last
                                    /\ (x = 1 \/ g > Rows[x - 1].last)}}
               /\ r.last_visited \in 0..meta.length
C17_Witness ==
    /\ pc = "idle" /\ ~broken /\ meta.length = 3 /\ num_chunks = 2
    /\ Rows[1].last = 1
    /\ get_chunk_names(0, 3, 2).last_visited = 3
    /\ Cardinality(get_chunk_names(0, 3, 2).names) = 2
    /\ Cardinality(get_chunk_names(0, 3, 1).names) = 1

\* arguments (sample_index, last_index, target_chunk_count) within the tensor
NameArgs == {a \in (0..num_samples) \X (0..num_samples) \X Targets : a[1] <= a[2]}
\* the scan reached its target on a chunk it covers only partially: the chunk
\* of the last sample visited also holds the next sample
PartlyCovered(a) ==
    LET r == get_chunk_names(a[1], a[2], a[3])
    IN /\ a[3] >= 1 /\ Cardinality(r.names) >= a[3]
       /\ r.last_visited < num_samples
       /\ EncLookup(enc, r.last_visited) = EncLookup(enc, r.last_visited - 1)
\* the range [sample_index, last_index) holds fewer than target distinct chunks
EndsEarly(a) ==
    Cardinality({EncLookup(enc, g) : g \in a[1]..(a[2] - 1)}) < a[3]

\* C18 (as claimed): where the last chunk needed to reach the target can be
\* covered only partially, there are arguments of that kind for which
\* get_chunk_names returns more than target_chunk_count names; and it returns
\* fewer than target when the range ends before target distinct chunks.
C18_MoreThanTargetWhenPartial ==
    (AtRest /\ ~broken) =>
        /\ (\E a \in NameArgs : PartlyCovered(a)) =>
              \E a \in NameArgs :
                 /\ PartlyCovered(a)
                 /\ Cardinality(get_chunk_names(a[1], a[2], a[3]).names) > a[3]
        /\ \A a \in NameArgs :
              EndsEarly(a) => Cardinality(get_chunk_names(a[1], a[2], a[3]).names) < a[3]

\* what the code does instead: never more names than the target, fewer
\* exactly when the range ends early
C18_NeverMoreThanTarget ==
    (AtRest /\ ~broken) =>
        \A a \in NameArgs :
            LET n == Cardinality(get_chunk_names(a[1], a[2], a[3]).names)
            IN /\ n <= a[3]
               /\ (n < a[3]) <=> EndsEarly(a)

\* the byte range recorded for the sample at global index g
ByteRange(g) ==
    get_chunk_for_sample(g).pos[translate_index_relative_to_chunks(enc, g) + 1]

\* C19: placing a sample with a zero-length buffer (shape (0,5)) changes no
\* chunk's data byte count; the sample's recorded byte range is (k, k); and
\* reading it gives a zero-filled array of the recorded shape without a call
\* of decompress_array, whether or not the tensor is compressed.
C19_EmptySample ==
    /\ []((AtRest /\ ~broken) =>
            \A g \in 0..(meta.length - 1) :
                written[g + 1].buf = <<>> =>
                    /\ ByteRange(g)[1] = ByteRange(g)[2]
                    /\ ByteRange(g)[1] \in 0..num_data_bytes(get_chunk_for_sample(g))
                    /\ \A expect_compressed \in BOOLEAN :
                          ReadSampleFromChunk(g, expect_compressed) =
                             [sample |-> [shape |-> written[g + 1].shape, elems |-> <<>>],
                              decompressed |-> FALSE])
    /\ [][(pc \in {"place", "new_chunk", "append_new"} /\ cur.buf = <<>>) =>
             /\ \A id \in DOMAIN chunks :
                   num_data_bytes(chunks'[id]) = num_data_bytes(chunks[id])
             /\ \A id \in DOMAIN chunks' \ DOMAIN chunks :
                   num_data_bytes(chunks'[id]) = 0]_vars
C19_Witness ==
    /\ AtRest /\ ~broken /\ ~updated /\ meta.length = 3
    /\ written[1] = [buf |-> <<>>, shape |-> <<0, 5>>]
    /\ ByteRange(0) = <<0, 0>>
    /\ EncRow(enc, 1) = 1 /\ ByteRange(1) = <<0, 1>>
    /\ written[3] = [buf |-> <<>>, shape |-> <<0, 5>>]
    /\ ByteRange(2) = <<0, 0>>
    /\ ReadSampleFromChunk(0, TRUE).sample = [shape |-> <<0, 5>>, elems |-> <<>>]

\* an extend, append or update call has passed check_readonly and reaches for
\* self.chunk_id_encoder
EncoderAccess ==
    pc = "idle" /\ pc' # "idle" /\ result'.op # "validate" /\ ~readonly

\* C20: reaching for the chunk id encoder when it is not in the cache raises
\* Corrupted exactly when TensorMeta.length > 1; when length <= 1 a blank
\* encoder (0 samples, 0 chunks) is created and stored in the cache; the
\* num_samples and num_chunks accessors give 0 for an absent encoder and do
\* not create it.
C20_MissingEncoder ==
    /\ [][(EncoderAccess /\ ~encExists) =>
             IF meta.length > 1
             THEN /\ pc' = "done" /\ result'.err = "Corrupted"
                  /\ UNCHANGED <<encExists, enc, meta, chunks>>
             ELSE /\ result'.err # "Corrupted"
                  /\ encExists'
                  /\ enc' = BlankEncoder
                  /\ EncNumSamples(enc') = 0 /\ EncNumChunks(enc') = 0]_vars
    /\ [][(EncoderAccess /\ encExists) =>
             result'.err # "Corrupted" /\ encExists']_vars
    /\ [](~encExists => num_samples = 0 /\ num_chunks = 0)
    /\ [][(pc = "idle" /\ result'.op = "validate") => UNCHANGED <<encExists, enc>>]_vars
C20_Witness ==
    /\ broken /\ ~dead /\ encExists
    /\ pc = "done" /\ result.op = "extend" /\ result.err = "none"
    /\ meta.length = 2 /\ num_samples = 1 /\ num_chunks = 1

\* number of entries of the step log equal to x
Count(x) == Cardinality({i \in 1..Len(log) : log[i] = x})
\* the log ends with the cache writes of the tensor meta and of the chunk id
\* encoder followed by maybe_flush, and holds nothing after it
FlushedAfterSync ==
    /\ Len(log) >= 3
    /\ log[Len(log)] = "maybe_flush"
    /\ log[Len(log) - 1] = "cache_encoder"
    /\ log[Len(log) - 2] = "cache_meta"
    /\ Count("maybe_flush") >= 1

\* C21: every completed extend and every completed primary-axis update calls
\* cache.maybe_flush() at least once, after every sample of the batch has been
\* placed (registered, or rewritten in its chunk) and after the last
\* synchronization of the tensor meta and the chunk id encoder; nothing is
\* placed or synchronized after the flush.
C21_FlushAfterSync ==
    /\ (pc = "done" /\ result.op = "extend" /\ result.err = "none") =>
          /\ batch = <<>>
          /\ num_samples = pre.num_samples + pre.n
          /\ Count("register") = 1
          /\ FlushedAfterSync
    /\ (pc = "done" /\ result.op = "update" /\ result.err = "none") =>
          /\ Count("update_sample") = pre.n
          /\ FlushedAfterSync
    /\ Count("maybe_flush") >= 1 => pc = "done"
C21_Witness ==
    /\ pc = "done" /\ result.op = "update" /\ result.err = "none"
    /\ pre.n = 2 /\ Count("cache_chunk") = 2
    /\ log[Len(log)] = "maybe_flush"

\* a step of the placement of one sample that was not cut short
PlacementStep(at) == pc = at /\ ~(pc' = "done" /\ result'.err = "Abandoned")
\* ct(x) = ceil(x / max_chunk_size)
ct(x) == (x + max_chunk_size - 1) \div max_chunk_size

AppendStep == pc' # "idle" /\ result'.op \notin {"update", "validate"}
\* the chunks already in the cache that a step changes
ChangedChunks == {id \in DOMAIN chunks : chunks'[id] # chunks[id]}

WellFormedChunk(c) ==
    /\ Len(c.shapes) = Len(c.pos)
    /\ \A i \in 1..Len(c.pos) :
          /\ c.pos[i][1] = (IF i = 1 THEN 0 ELSE c.pos[i - 1][2])
          /\ c.pos[i][1] <= c.pos[i][2]
    /\ num_data_bytes(c) = (IF c.pos = <<>> THEN 0 ELSE c.pos[Len(c.pos)][2])
\* number of global indices the chunk id encoder maps to its r-th row
RowSamples(r) == Rows[r].last - (IF r = 1 THEN -1 ELSE Rows[r - 1].last)
\* a primary-axis update call returns normally
UpdateReturns == pc = "idle" /\ pc' = "done" /\ result'.op = "update" /\ result'.err = "none"
RangeLen(c, j) == c.pos[j][2] - c.pos[j][1]

\* C24: in every chunk, after any appends and updates, the shapes encoder and
\* the byte positions encoder have one entry per sample of the chunk; the byte
\* ranges are sorted, contiguous, start at 0 and end at the data length; an
\* update of local index i with a buffer of n bytes changes the data length
\* and every offset after the start of range i by n - (end_i - start_i) and
\* leaves the ranges before i unchanged (nothing moves when the size is the
\* same); after a batch every range has its new or its old length.
C24_ChunkEncoders ==
    /\ [](\A id \in DOMAIN chunks : WellFormedChunk(chunks[id]))
    /\ []((AtRest /\ ~broken) =>
            \A r \in 1..Len(Rows) : ChunkNumSamples(RowChunk(r)) = RowSamples(r))
    /\ [][(UpdateReturns /\ pre'.n = 1) =>
             LET g   == pre'.start
                 id  == EncLookup(enc, g)
                 i   == translate_index_relative_to_chunks(enc, g) + 1
                 old == chunks[id]
                 new == chunks'[id]
                 d   == Len(pre'.samples[1].buf) - RangeLen(old, i)
             IN /\ num_data_bytes(new) = num_data_bytes(old) + d
                /\ Len(new.pos) = Len(old.pos)
                /\ \A j \in 1..Len(old.pos) :
                      new.pos[j] = IF j < i THEN old.pos[j]
                                   ELSE IF j = i THEN <<old.pos[j][1], old.pos[j][2] + d>>
                                   ELSE <<old.pos[j][1] + d, old.pos[j][2] + d>>
                /\ d = 0 => new.pos = old.pos /\ num_data_bytes(new) = num_data_bytes(old)
                /\ \A o \in DOMAIN chunks \ {id} : chunks'[o] = chunks[o]]_vars
    /\ [][UpdateReturns =>
             /\ DOMAIN chunks' = DOMAIN chunks
             /\ \A r \in 1..Len(Rows) :
                   LET first == Rows[r].last - RowSamples(r) + 1
                       old == RowChunk(r)
                       new == chunks'[Rows[r].id]
                   IN /\ Len(new.pos) = Len(old.pos)
                      /\ \A j \in 1..Len(old.pos) :
                            LET g == first + j - 1
                                k == g - pre'.start + 1
                            IN IF k \in 1..pre'.n
                               THEN /\ RangeLen(new, j) = Len(pre'.samples[k].buf)
                                    /\ new.shapes[j] = pre'.samples[k].shape
                               ELSE /\ RangeLen(new, j) = RangeLen(old, j)
                                    /\ new.shapes[j] = old.shapes[j]]_vars
C24_Witness ==
    /\ pc = "done" /\ result.op = "update" /\ result.err = "none" /\ pre.n = 1
    /\ num_chunks = 1 /\ num_samples = 3 /\ pre.start = 1
    /\ chunks[Rows[1].id].pos = <<<<0, 1>>, <<1, 4>>, <<4, 5>>>>

\* the (chunk id, local index) pair the engine reads global index g from
Pair(g) == <<EncLookup(enc, g), translate_index_relative_to_chunks(enc, g)>>

\* C25: for every g in [0, num_samples) the binary search of the encoder
\* finds the smallest row whose last index >= g, the engine reads g from that
\* row's chunk at local index g - (previous row's last index) - 1 (g in the
\* first row); the local index lies in [0, samples in that chunk); g ->
\* (chunk id, local index) is injective; iterating a slice yields the pairs
\* of its indices in ascending global order, and each pair addresses the
\* sample written at that index.
C25_IndexTranslation ==
    (pc = "idle" /\ ~broken) =>
        /\ \A g \in 0..(num_samples - 1) :
              LET r == SearchRow(enc, g)
              IN /\ r \in 1..Len(Rows)
                 /\ Rows[r].last >= g
                 /\ \A q \in 1..(r - 1) : Rows[q].last < g
                 /\ Pair(g)[1] = Rows[r].id
                 /\ Pair(g)[2] = (IF r = 1 THEN g ELSE g - Rows[r - 1].last - 1)
                 /\ Pair(g)[2] >= 0
                 /\ Pair(g)[2] < ChunkNumSamples(chunks[Pair(g)[1]])
        /\ \A g, h \in 0..(num_samples - 1) : Pair(g) = Pair(h) => g = h
        /\ \A lo \in 0..(num_samples - 1) : \A hi \in lo..(num_samples - 1) :
              LET it == EncIter(lo, hi)
              IN /\ Len(it) = hi - lo + 1
                 /\ \A k \in 1..Len(it) :
                       /\ it[k] = Pair(lo + k - 1)
                       /\ chunks[it[k][1]].shapes[it[k][2] + 1] = written[lo + k].shape
                       /\ RangeLen(chunks[it[k][1]], it[k][2] + 1) = Len(written[lo + k].buf)
C25_Witness ==
    /\ pc = "idle" /\ ~broken /\ num_samples = 3 /\ num_chunks = 2
    /\ Rows[1].last = 1
    /\ EncIter(0, 2) = <<<<Rows[1].id, 0>>, <<Rows[1].id, 1>>, <<Rows[2].id, 0>>>>
    /\ Len(written[2].buf) = 3

\* an update of the primary axis has gone through _make_sequence and returned
MadeSequence ==
    /\ pc = "done" /\ result.op = "update" /\ result.single
    /\ result.err \notin {"ReadOnly", "Corrupted"}

\* C26 (as claimed): _make_sequence(samples, index_length) returns a sequence
\* of index_length items or raises ValueError, whatever the samples (one
\* object without length, a list of any length); so an update given a number
\* of samples other than the length of its index fails, and fails before any
\* chunk or TensorMeta field is modified.
C26_MakeSequenceLength ==
    /\ [](MadeSequence =>
            /\ pre.made_err = "ValueError" \/ pre.made_len = pre.index_length
            /\ pre.given # pre.index_length => result.err # "none")
    /\ [][(MadeSequence' /\ pc = "idle" /\ pre'.given # pre'.index_length) =>
             UNCHANGED <<chunks, meta>>]_vars

\* what _make_sequence does keep: a list is returned as it is when its
\* length is that of the index and refused with ValueError otherwise, except
\* that for a single index a list of another length is taken as the one
\* sample; an update refused by it changes nothing.
C26_ListsAreChecked ==
    /\ \A n \in SliceLengths, k \in SliceLengths : \A q \in SeqsOf(Arrays, k) :
          LET r == _make_sequence(ListOf(q), n)
          IN IF k = n THEN r = [err |-> "none", seq |-> q, nested |-> FALSE]
             ELSE IF n = 1 THEN r = [err |-> "none", seq |-> <<q>>, nested |-> TRUE]
             ELSE r.err = "ValueError"
    /\ (MadeSequence /\ result.err = "none") => pre.n = pre.made_len

\* ------------------------------------------------- placement of one buffer
\* _append_bytes applied to one buffer of any length b, also beyond
\* max_chunk_size, on a tensor whose only chunk holds one sample of s bytes:
\* the state of extend at line 330, after the codec and the length increment.
MaxBufferLen == 2 * ModelMaxChunkSize + 1

InitPlacement ==
    \E s \in 0..ModelMaxChunkSize, b \in 0..MaxBufferLen :
       LET first    == SerializeSample(Arr(<<1, s>>))
           incoming == SerializeSample(Arr(<<1, b>>))
           m1 == update_shape_interval(BlankMeta(ModelMaxChunkSize), first.shape)
           m2 == update_shape_interval(m1, incoming.shape)
       IN /\ readonly = FALSE
          /\ meta = [m2 EXCEPT !.length = 2, !.dtype = "uint8"]
          /\ encExists = TRUE
          /\ enc = register_samples(generate_chunk_id(BlankEncoder, 1), 1)
          /\ chunks = (1 :> append_sample(EmptyChunk, first.buf, first.shape))
          /\ pc = "place"
          /\ batch = <<>>
          /\ cur = incoming
          /\ result = NoResult
          /\ pre = [length |-> 1, num_samples |-> 1, num_chunks |-> 1, n |-> 1]
          /\ log = <<"meta_length">>
          /\ written = <<first>>
          /\ updated = FALSE
          /\ broken = FALSE
          /\ dead = FALSE

NextPlacement ==
    \/ TryAppendingToLastChunk
    \/ CreateNewChunk
    \/ AppendToNewChunk
    \/ AppendBytesRegister
    \/ SynchronizeCache
    \/ ExtendFlush
    \/ Return

SpecPlacement == InitPlacement /\ [][NextPlacement]_vars

\* _try_appending_to_last_chunk takes its merge branch in this step
MergeStep == pc = "place" /\ pc' = "register"

\* the bytes the step has added to the chunk that was the last one
MergedBytes ==
    SubSeq(chunks'[last_chunk_key].data, num_data_bytes(chunks[last_chunk_key]) + 1,
           num_data_bytes(chunks'[last_chunk_key]))

C28_ChunksNeverEmpty ==
    /\ [](AtRest =>
            /\ \A r \in 1..Len(Rows) :
                  /\ Rows[r].id \in DOMAIN chunks
                  /\ ChunkNumSamples(RowChunk(r)) >= 1
                  /\ RowSamples(r) >= 1
            /\ num_chunks <= num_samples)
    /\ [][~DeleteEncoder =>
             /\ num_chunks' >= num_chunks
             /\ DOMAIN chunks \subseteq DOMAIN chunks'
             /\ \A id \in DOMAIN chunks :
                   ChunkNumSamples(chunks'[id]) >= ChunkNumSamples(chunks[id])]_vars

\* after an update, a tensor of two chunks whose second chunk holds one
\* sample of no bytes
C28_Witness ==
    /\ pc = "idle" /\ ~broken /\ updated
    /\ num_chunks = 2
    /\ ChunkNumSamples(RowChunk(2)) = 1
    /\ num_data_bytes(RowChunk(2)) = 0

\* an append of one zero-length sample, to a tensor that had chunks, is being
\* registered or has returned
EmptyAppend ==
    /\ pc \in {"register", "done"} /\ result.err = "none"
    /\ pre.n = 1 /\ pre.num_chunks > 0
    /\ cur # NoSample /\ Len(cur.buf) = 0
\* the chunk that was the last one when the append was called; the empty
\* buffer has not changed its size
LastAtEntry == chunks[Rows[pre.num_chunks].id]
\* a new chunk has been allocated for the sample
NewChunkAllocated == IF pc = "register" THEN enc.latest # 0 ELSE num_chunks = pre.num_chunks + 1

====
